---- MODULE Spec2Model ----
(***************************************************************************)
(* Model of the commit-message engine of skills/git-commit-auto:           *)
(* scripts/suggest_commit_message.py (change-set reader, classifiers,      *)
(* renderer, command entry point), of scripts/auto_commit.py, which runs   *)
(* the engine as a subprocess and commits, and of                          *)
(* skills/git-worktree-flow: scripts/worktree_finish.py.                   *)
(*                                                                         *)
(* A Python str is a sequence of code points.  A code point is written as  *)
(* a string: an ASCII character as itself, any other as "uXXXX" (its       *)
(* hexadecimal number), so Len is Python's len.  The output of git is a    *)
(* sequence of such units too, with NUL for the zero byte and InvalidByte  *)
(* for a byte that is not valid UTF-8.  An Optional[str] is <<>> for None  *)
(* and <<s>> for the string s.                                             *)
(***************************************************************************)
EXTENDS Integers, Sequences, FiniteSets, TLC

VARIABLES
    pc,           \* position in main(): "args", "repo", "build", "print", "done"
    args,         \* argparse namespace: [cached, worktree, json, hint]
    is_repo,      \* environment: does `git rev-parse --show-toplevel` succeed in cwd
    git_ok,       \* environment: do the git commands run by build_message succeed
    records,      \* environment: the records `git diff --name-status` reports
    diff_raw,     \* environment: stdout of `git diff [--cached] --name-status -z`
    untracked_raw,\* environment: stdout of `git ls-files --others --exclude-standard -z`
    stat_raw,     \* environment: stdout of `git diff [--cached] --shortstat`
    changed,      \* build_message: the ChangeSet (list of ChangedFile)
    result,       \* build_message: None, or the classifier results of this run
    subject,      \* main: None, or the subject build_message returned
    body,         \* main: None, or the body build_message returned
    stdout,       \* lines printed to standard output
    stderr,       \* lines printed to standard error
    exit_code,    \* None (<<>>), or <<the exit status of the process>>
    auto,         \* auto_commit.py: main()'s frame, its repository and its output
    finish        \* worktree_finish.py: main()'s frame, its repository and its output

vars == <<pc, args, is_repo, git_ok, records, diff_raw, untracked_raw, stat_raw,
          changed, result, subject, body, stdout, stderr, exit_code, auto, finish>>

----------------------------------------------------------------------------
(* Optional values *)

None == <<>>
Some(v) == <<v>>
is_none(o) == Len(o) = 0
the(o) == o[1]

\* TRUE for every list.  TLC evaluates an operator's argument when it is first
\* used; a loop tests evaluated(acc) in its guard so that its accumulator is
\* computed iteration by iteration, as in the code, and not all at once at the end.
evaluated(acc) == Len(acc) >= 0

----------------------------------------------------------------------------
(* str operations, as Python defines them *)

NUL == "NUL"
InvalidByte == "xFF"
ReplacementChar == "uFFFD"

\* str.strip() removes these (ASCII whitespace and the ideographic space)
Whitespace == {" ", "\t", "\n", "\r", "u3000"}

UpperChars == <<"A", "B", "C", "D", "E", "F", "G", "H", "I", "J", "K", "L", "M", "N", "O", "P", "Q", "R", "S", "T", "U", "V", "W", "X", "Y", "Z">>
LowerChars == <<"a", "b", "c", "d", "e", "f", "g", "h", "i", "j", "k", "l", "m", "n", "o", "p", "q", "r", "s", "t", "u", "v", "w", "x", "y", "z">>

LowerChar(c) ==
    IF \E i \in 1..Len(UpperChars) : UpperChars[i] = c
    THEN LowerChars[CHOOSE i \in 1..Len(UpperChars) : UpperChars[i] = c]
    ELSE c

lower(s) == [i \in 1..Len(s) |-> LowerChar(s[i])]

\* bytes.decode("utf-8", errors="replace")
decode(b) == [i \in 1..Len(b) |-> IF b[i] = InvalidByte THEN ReplacementChar ELSE b[i]]

MatchAt(s, i, p) ==
    /\ i >= 1
    /\ i + Len(p) - 1 <= Len(s)
    /\ \A j \in 1..Len(p) : s[i + j - 1] = p[j]

startswith(s, p) == MatchAt(s, 1, p)

endswith(s, p) == MatchAt(s, Len(s) - Len(p) + 1, p)

\* p in s
contains(s, p) == \E i \in 1..(Len(s) - Len(p) + 1) : MatchAt(s, i, p)

lstrip(s) ==
    IF \A i \in 1..Len(s) : s[i] \in Whitespace THEN <<>>
    ELSE LET i == CHOOSE k \in 1..Len(s) :
                      s[k] \notin Whitespace /\ \A j \in 1..(k - 1) : s[j] \in Whitespace
         IN  SubSeq(s, i, Len(s))

rstrip(s) ==
    IF \A i \in 1..Len(s) : s[i] \in Whitespace THEN <<>>
    ELSE LET i == CHOOSE k \in 1..Len(s) :
                      s[k] \notin Whitespace /\ \A j \in (k + 1)..Len(s) : s[j] \in Whitespace
         IN  SubSeq(s, 1, i)

strip(s) == rstrip(lstrip(s))

\* s.replace(old, new) for a non-empty old: the leftmost occurrence is replaced,
\* then the search goes on behind it
RECURSIVE replace(_, _, _)
replace(s, old, new) ==
    IF ~contains(s, old) THEN s
    ELSE LET i == CHOOSE k \in 1..Len(s) :
                      MatchAt(s, k, old) /\ \A j \in 1..(k - 1) : ~MatchAt(s, j, old)
         IN  SubSeq(s, 1, i - 1) \o new
             \o replace(SubSeq(s, i + Len(old), Len(s)), old, new)

\* s.split(sep) for a one-unit separator
RECURSIVE split(_, _)
split(s, sep) ==
    IF \A i \in 1..Len(s) : s[i] /= sep THEN <<s>>
    ELSE LET i == CHOOSE k \in 1..Len(s) :
                      s[k] = sep /\ \A j \in 1..(k - 1) : s[j] /= sep
         IN  <<SubSeq(s, 1, i - 1)>> \o split(SubSeq(s, i + 1, Len(s)), sep)

\* sep.join(items)
RECURSIVE join(_, _)
join(sep, items) ==
    IF Len(items) = 0 THEN <<>>
    ELSE IF Len(items) = 1 THEN items[1]
    ELSE items[1] \o sep \o join(sep, Tail(items))

\* s[:n]
truncate(s, n) == SubSeq(s, 1, IF Len(s) < n THEN Len(s) ELSE n)

Digits == <<"0", "1", "2", "3", "4", "5", "6", "7", "8", "9">>

\* str(n) for n >= 0
RECURSIVE str(_)
str(n) == IF n < 10 THEN <<Digits[n + 1]>> ELSE str(n \div 10) \o <<Digits[(n % 10) + 1]>>

\* re `$`: position e (the index after a match) is the end of the string, or is
\* just before a newline that ends the string
re_at_end(s, e) == e = Len(s) + 1 \/ (e = Len(s) /\ s[e] = "\n")

\* re.search(<w>$, s)
re_search_suffix(s, w) ==
    \E i \in 1..Len(s) : MatchAt(s, i, w) /\ re_at_end(s, i + Len(w))

\* re.search((^|/)<w>(/|$), s)
re_search_segment(s, w) ==
    \E i \in 1..Len(s) :
        /\ MatchAt(s, i, w)
        /\ (i = 1 \/ s[i - 1] = "/")
        /\ LET e == i + Len(w)
           IN  (e <= Len(s) /\ s[e] = "/") \/ re_at_end(s, e)

----------------------------------------------------------------------------
(* Change Set Reader *)

_parse_z_pairs(data) ==
    IF Len(data) = 0 THEN <<>>
    ELSE LET parts == split(data, NUL)
             kept  == IF Len(parts) > 0 /\ Len(parts[Len(parts)]) = 0
                      THEN SubSeq(parts, 1, Len(parts) - 1)
                      ELSE parts
         IN  [i \in 1..Len(kept) |-> decode(kept[i])]

ChangedFile(status, path) == [status |-> status, path |-> path]

\* list_changed_loop moving the cursor by two fields after a rename/copy record
RECURSIVE list_changed_loop_two_fields(_, _, _)
list_changed_loop_two_fields(parts, i, acc) ==
    IF evaluated(acc) /\ i > Len(parts) THEN acc
    ELSE LET status == parts[i] IN
         IF Len(status) = 0 THEN list_changed_loop_two_fields(parts, i + 1, acc)
         ELSE IF startswith(status, <<"R">>) \/ startswith(status, <<"C">>)
              THEN IF i + 2 > Len(parts) THEN acc
                   ELSE list_changed_loop_two_fields(parts, i + 2,
                            Append(acc, ChangedFile(truncate(status, 1), parts[i + 2])))
              ELSE IF i + 1 > Len(parts) THEN acc
                   ELSE list_changed_loop_two_fields(parts, i + 2,
                            Append(acc, ChangedFile(truncate(status, 1), parts[i + 1])))

\* the while loop of _list_changed_files; i is the 1-based field cursor
RECURSIVE list_changed_loop(_, _, _)
list_changed_loop(parts, i, acc) ==
    IF evaluated(acc) /\ i > Len(parts) THEN acc
    ELSE LET status == parts[i] IN
         IF Len(status) = 0 THEN list_changed_loop(parts, i + 1, acc)
         ELSE IF startswith(status, <<"R">>) \/ startswith(status, <<"C">>)
              THEN IF i + 2 > Len(parts) THEN acc
                   ELSE list_changed_loop(parts, i + 3,
                            Append(acc, ChangedFile(truncate(status, 1), parts[i + 2])))
              ELSE IF i + 1 > Len(parts) THEN acc
                   ELSE list_changed_loop(parts, i + 2,
                            Append(acc, ChangedFile(truncate(status, 1), parts[i + 1])))

_list_changed_files(raw) == list_changed_loop(_parse_z_pairs(raw), 1, <<>>)

_list_untracked_files(raw) ==
    LET paths == _parse_z_pairs(raw)
    IN  [i \in 1..Len(paths) |-> ChangedFile(<<"A">>, paths[i])]

----------------------------------------------------------------------------
(* Classifiers *)

\* dict.get(key, 0) + n on an insertion-ordered dict, kept as a list of <<key, n>>
dict_add(d, key, n) ==
    IF \E k \in 1..Len(d) : d[k][1] = key
    THEN [k \in 1..Len(d) |-> IF d[k][1] = key THEN <<key, d[k][2] + n>> ELSE d[k]]
    ELSE Append(d, <<key, n>>)

\* max_by_value returning the last item with the largest value
max_by_value_last(d) ==
    LET k == CHOOSE k \in 1..Len(d) :
                 /\ \A j \in 1..Len(d) : d[j][2] <= d[k][2]
                 /\ \A j \in (k + 1)..Len(d) : d[j][2] < d[k][2]
    IN  d[k][1]

\* max(d.items(), key=lambda kv: kv[1])[0]: the first item with the largest value
max_by_value(d) ==
    LET k == CHOOSE k \in 1..Len(d) :
                 /\ \A j \in 1..Len(d) : d[j][2] <= d[k][2]
                 /\ \A j \in 1..(k - 1) : d[j][2] < d[k][2]
    IN  d[k][1]

area_default == <<"u9879", "u76EE">>
area_mapping == <<
    <<<<"m", "o", "b", "i", "l", "e", "-", "a", "p", "p">>, <<"u79FB", "u52A8", "u7AEF">>>>,
    <<<<"b", "a", "c", "k", "e", "n", "d">>, <<"u540E", "u7AEF">>>>,
    <<<<"d", "o", "c", "s">>, <<"u6587", "u6863">>>> >>

RECURSIVE count_tops(_, _, _)
count_tops(paths, i, counts) ==
    IF evaluated(counts) /\ i > Len(paths) THEN counts
    ELSE LET p   == paths[i]
             top == IF contains(p, <<"/">>) THEN split(p, "/")[1] ELSE p
         IN  count_tops(paths, i + 1, dict_add(counts, top, 1))

_dominant_area(paths) ==
    LET counts == count_tops(paths, 1, <<>>) IN
    IF Len(counts) = 0 THEN area_default
    ELSE LET top == max_by_value(counts) IN
         IF \E k \in 1..Len(area_mapping) : area_mapping[k][1] = top
         THEN area_mapping[CHOOSE k \in 1..Len(area_mapping) : area_mapping[k][1] = top][2]
         ELSE area_default

\* _is_docs_only comparing the extension without lower()
_is_docs_only_case_sensitive(paths) ==
    /\ Len(paths) > 0
    /\ \A i \in 1..Len(paths) :
          \/ startswith(paths[i], <<"d", "o", "c", "s", "/">>)
          \/ endswith(paths[i], <<".", "m", "d">>)

_is_docs_only(paths) ==
    /\ Len(paths) > 0
    /\ \A i \in 1..Len(paths) :
          \/ startswith(paths[i], <<"d", "o", "c", "s", "/">>)
          \/ endswith(lower(paths[i]), <<".", "m", "d">>)

test_suffixes == {
    <<"_", "t", "e", "s", "t", ".", "g", "o">>,
    <<".", "s", "p", "e", "c", ".", "t", "s">>, <<".", "s", "p", "e", "c", ".", "t", "s", "x">>, <<".", "s", "p", "e", "c", ".", "j", "s">>, <<".", "s", "p", "e", "c", ".", "j", "s", "x">>,
    <<".", "t", "e", "s", "t", ".", "t", "s">>, <<".", "t", "e", "s", "t", ".", "t", "s", "x">>, <<".", "t", "e", "s", "t", ".", "j", "s">>, <<".", "t", "e", "s", "t", ".", "j", "s", "x">> }

test_segments == { <<"_", "_", "t", "e", "s", "t", "s", "_", "_">>, <<"t", "e", "s", "t">>, <<"t", "e", "s", "t", "s">> }

is_test_path(p) ==
    \/ \E w \in test_suffixes : re_search_suffix(p, w)
    \/ \E w \in test_segments : re_search_segment(p, w)

_is_test_only(paths) ==
    /\ Len(paths) > 0
    /\ \A i \in 1..Len(paths) : is_test_path(paths[i])

allow == {
    <<"p", "a", "c", "k", "a", "g", "e", ".", "j", "s", "o", "n">>, <<"p", "a", "c", "k", "a", "g", "e", "-", "l", "o", "c", "k", ".", "j", "s", "o", "n">>, <<"y", "a", "r", "n", ".", "l", "o", "c", "k">>, <<"p", "n", "p", "m", "-", "l", "o", "c", "k", ".", "y", "a", "m", "l">>,
    <<"g", "o", ".", "m", "o", "d">>, <<"g", "o", ".", "s", "u", "m">>, <<"t", "s", "c", "o", "n", "f", "i", "g", ".", "j", "s", "o", "n">>, <<"a", "p", "p", ".", "j", "s", "o", "n">>, <<"a", "p", "p", ".", "c", "o", "n", "f", "i", "g", ".", "j", "s">>,
    <<"a", "p", "p", ".", "c", "o", "n", "f", "i", "g", ".", "t", "s">>, <<".", "g", "i", "t", "i", "g", "n", "o", "r", "e">>, <<".", "g", "i", "t", "a", "t", "t", "r", "i", "b", "u", "t", "e", "s">> }

is_chore_path(p) ==
    LET segs == split(p, "/")
        base == segs[Len(segs)]
    IN  \/ base \in allow
        \/ startswith(p, <<".", "g", "i", "t", "h", "u", "b", "/">>)
        \/ startswith(p, <<".", "v", "s", "c", "o", "d", "e", "/">>)
        \/ /\ endswith(base, <<".", "y", "m", "l">>) \/ endswith(base, <<".", "y", "a", "m", "l">>)
           /\ contains(base, <<"e", "s", "l", "i", "n", "t">>) \/ contains(base, <<"p", "r", "e", "t", "t", "i", "e", "r">>)

_is_chore_only(paths) ==
    /\ Len(paths) > 0
    /\ \A i \in 1..Len(paths) : is_chore_path(paths[i])

\* 修复, bug, 崩溃, 异常, 错误
defect_keywords == << <<"u4FEE", "u590D">>, <<"b", "u", "g">>, <<"u5D29", "u6E83">>, <<"u5F02", "u5E38">>, <<"u9519", "u8BEF">> >>

type_fix   == <<"f", "i", "x">>
type_docs  == <<"d", "o", "c", "s">>
type_test  == <<"t", "e", "s", "t">>
type_chore == <<"c", "h", "o", "r", "e">>
type_feat  == <<"f", "e", "a", "t">>

\* a str or None is truthy when it is a non-empty string
truthy(o) == ~is_none(o) /\ Len(the(o)) > 0

\* _infer_type with the documentation rule tried before the hint
_infer_type_docs_first(paths, user_hint) ==
    IF _is_docs_only(paths) THEN type_docs
    ELSE IF truthy(user_hint)
            /\ \E k \in 1..Len(defect_keywords) : contains(the(user_hint), defect_keywords[k])
    THEN type_fix
    ELSE IF _is_test_only(paths) THEN type_test
    ELSE IF _is_chore_only(paths) THEN type_chore
    ELSE type_feat

_infer_type(paths, user_hint) ==
    IF truthy(user_hint)
       /\ \E k \in 1..Len(defect_keywords) : contains(the(user_hint), defect_keywords[k])
    THEN type_fix
    ELSE IF _is_docs_only(paths) THEN type_docs
    ELSE IF _is_test_only(paths) THEN type_test
    ELSE IF _is_chore_only(paths) THEN type_chore
    ELSE type_feat

label_about   == <<"u5173", "u4E8E", "u6211", "u4EEC">>
label_privacy == <<"u9690", "u79C1", "u653F", "u7B56">>

\* the keyword table of _infer_object, in its order
keywords == <<
    <<<<"a", "b", "o", "u", "t">>,    label_about>>,
    <<<<"p", "r", "i", "v", "a", "c", "y">>,  label_privacy>>,
    <<<<"r", "e", "g", "i", "s", "t", "e", "r">>, <<"u6CE8", "u518C">>>>,
    <<<<"s", "i", "g", "n", "u", "p">>,   <<"u6CE8", "u518C">>>>,
    <<<<"l", "o", "g", "i", "n">>,    <<"u767B", "u5F55">>>>,
    <<<<"a", "u", "t", "h">>,     <<"u8BA4", "u8BC1">>>>,
    <<<<"p", "r", "o", "f", "i", "l", "e">>,  <<"u4E2A", "u4EBA", "u4E2D", "u5FC3">>>>,
    <<<<"a", "c", "c", "o", "u", "n", "t">>,  <<"u8D26", "u53F7">>>>,
    <<<<"s", "e", "a", "r", "c", "h">>,   <<"u641C", "u7D22">>>>,
    <<<<"p", "l", "a", "y", "e", "r">>,   <<"u64AD", "u653E", "u5668">>>>,
    <<<<"h", "i", "s", "t", "o", "r", "y">>,  <<"u5386", "u53F2">>>>,
    <<<<"d", "o", "w", "n", "l", "o", "a", "d">>, <<"u4E0B", "u8F7D">>>>,
    <<<<"c", "a", "c", "h", "e">>,    <<"u7F13", "u5B58">>>>,
    <<<<"t", "o", "a", "s", "t">>,    <<"T", "o", "a", "s", "t">>>>,
    <<<<"s", "u", "p", "a", "b", "a", "s", "e">>, <<"S", "u", "p", "a", "b", "a", "s", "e">>>>,
    <<<<"a", "p", "i">>,      <<"u63A5", "u53E3">>>>,
    <<<<"r", "o", "u", "t", "e">>,    <<"u8DEF", "u7531">>>>,
    <<<<"l", "a", "y", "o", "u", "t">>,   <<"u5E03", "u5C40">>>> >>

status_A == <<"A">>
status_D == <<"D">>

\* the first loop of _infer_object: the first changed file that is Added and
\* names an about or a privacy page decides
RECURSIVE priority_phase(_, _)
priority_phase(chg, i) ==
    IF i > Len(chg) THEN None
    ELSE LET p == lower(chg[i].path) IN
         IF chg[i].status = status_A /\ contains(p, <<"a", "b", "o", "u", "t">>) THEN Some(label_about)
         ELSE IF chg[i].status = status_A /\ contains(p, <<"p", "r", "i", "v", "a", "c", "y">>) THEN Some(label_privacy)
         ELSE priority_phase(chg, i + 1)

\* weight counting a renamed or copied file like an added one
weight_rename_as_added(status) == IF status \in {<<"A">>, <<"R">>, <<"C">>} THEN 3 ELSE 1

\* weight without the preference for added files
weight_flat(status) == 1

\* weight = 3 if status == "A" else 1
weight(status) == IF status = status_A THEN 3 ELSE 1

\* the inner loop, over lower_items, for the keyword keywords[k]
RECURSIVE score_items(_, _, _, _)
score_items(items, k, j, score) ==
    IF evaluated(score) /\ j > Len(items) THEN score
    ELSE score_items(items, k, j + 1,
             IF contains(items[j][1], keywords[k][1])
             THEN dict_add(score, keywords[k][2], weight(items[j][2]))
             ELSE score)

\* the outer loop, over the keyword table
RECURSIVE score_loop(_, _, _)
score_loop(items, k, score) ==
    IF evaluated(score) /\ k > Len(keywords) THEN score
    ELSE score_loop(items, k + 1, score_items(items, k, 1, score))

_infer_object(chg) ==
    LET first == priority_phase(chg, 1) IN
    IF ~is_none(first) THEN first
    ELSE LET lower_items == [i \in 1..Len(chg) |-> <<lower(chg[i].path), chg[i].status>>]
             score       == score_loop(lower_items, 1, <<>>)
         IN  IF Len(score) = 0 THEN None ELSE Some(max_by_value(score))

action_added   == <<"u65B0", "u589E">>
action_removed == <<"u79FB", "u9664">>
action_updated == <<"u66F4", "u65B0">>

_infer_action_removed_first(statuses) ==
    IF \E i \in 1..Len(statuses) : statuses[i] = status_D THEN action_removed
    ELSE IF \E i \in 1..Len(statuses) : statuses[i] = status_A THEN action_added
    ELSE action_updated

_infer_action(statuses) ==
    IF \E i \in 1..Len(statuses) : statuses[i] = status_A THEN action_added
    ELSE IF \E i \in 1..Len(statuses) : statuses[i] = status_D THEN action_removed
    ELSE action_updated

----------------------------------------------------------------------------
(* Message Renderer *)

limit == 50
max_files == 12

suffix_docs    == <<"u6587", "u6863">>
suffix_page    == <<"u9875", "u9762">>
suffix_feature == <<"u529F", "u80FD">>
suffix_change  == <<"u53D8", "u66F4">>
char_page      == <<"u9875">>

\* _compact_subject without its last fallback, the cut to lim code points
_compact_subject_uncut(prefix, summary, lim) ==
    LET subject_ == strip(prefix \o <<":", " ">> \o summary) IN
    IF Len(subject_) <= lim THEN subject_
    ELSE strip(prefix \o <<":", " ">>
               \o replace(replace(summary, suffix_feature, <<>>), suffix_page, <<>>))

_compact_subject(prefix, summary, lim) ==
    LET subject_ == strip(prefix \o <<":", " ">> \o summary) IN
    IF Len(subject_) <= lim THEN subject_
    ELSE LET summary2 == replace(replace(summary, suffix_feature, <<>>), suffix_page, <<>>)
             subject2 == strip(prefix \o <<":", " ">> \o summary2)
         IN  IF Len(subject2) <= lim THEN subject2 ELSE truncate(subject_, lim)

\* the if/elif ladder of build_message that chooses the summary
summary_of(user_hint, obj, commit_type, action, area, paths) ==
    IF truthy(user_hint) THEN strip(the(user_hint))
    ELSE IF truthy(obj) THEN
        IF commit_type = type_docs THEN action \o the(obj) \o suffix_docs
        ELSE IF /\ the(obj) \in {label_about, label_privacy}
                /\ \E i \in 1..Len(paths) : contains(lower(paths[i]), <<"a", "b", "o", "u", "t">>)
             THEN action \o the(obj) \o suffix_page
        ELSE IF contains(the(obj), suffix_page) \/ endswith(the(obj), char_page)
             THEN action \o the(obj)
        ELSE action \o the(obj) \o suffix_feature
    ELSE action \o area \o suffix_change

\* _run_git(...).strip() of `git diff --shortstat`
_shortstat(raw) == strip(decode(raw))

file_line(c) == <<"-", " ">> \o c.status \o <<" ">> \o c.path

\* body_lines with the cap compared by >= in place of >
body_lines_cap_off_by_one(stat, chg) ==
    LET shown == IF Len(chg) < max_files THEN Len(chg) ELSE max_files IN
    (IF Len(stat) > 0 THEN << <<"-", " ", "u7EDF", "u8BA1", "uFF1A">> \o stat >> ELSE <<>>)
    \o [i \in 1..shown |-> file_line(chg[i])]
    \o (IF Len(chg) >= max_files
        THEN << <<"-", " ", ".", ".", ".", " ", "u4EE5", "u53CA", "u53E6", "u5916", " ">> \o str(Len(chg) - max_files) \o <<" ", "u4E2A", "u6587", "u4EF6">> >>
        ELSE <<>>)

body_lines(stat, chg) ==
    LET shown == IF Len(chg) < max_files THEN Len(chg) ELSE max_files IN
    (IF Len(stat) > 0 THEN << <<"-", " ", "u7EDF", "u8BA1", "uFF1A">> \o stat >> ELSE <<>>)
    \o [i \in 1..shown |-> file_line(chg[i])]
    \o (IF Len(chg) > max_files
        THEN << <<"-", " ", ".", ".", ".", " ", "u4EE5", "u53CA", "u53E6", "u5916", " ">> \o str(Len(chg) - max_files) \o <<" ", "u4E2A", "u6587", "u4EF6">> >>
        ELSE <<>>)

\* read_changes adding the untracked files in both modes
read_changes_always_untracked(cached, raw, raw_untracked) ==
    _list_changed_files(raw) \o _list_untracked_files(raw_untracked)

\* the ChangeSet build_message reads
read_changes(cached, raw, raw_untracked) ==
    IF cached THEN _list_changed_files(raw)
    ELSE _list_changed_files(raw) \o _list_untracked_files(raw_untracked)

\* the classifier calls of build_message
classify(chg, user_hint) ==
    LET paths    == [i \in 1..Len(chg) |-> chg[i].path]
        statuses == [i \in 1..Len(chg) |-> chg[i].status]
    IN  [commit_type |-> _infer_type(paths, user_hint),
         area        |-> _dominant_area(paths),
         obj         |-> _infer_object(chg),
         action      |-> _infer_action(statuses)]

render_subject(chg, r, user_hint) ==
    LET paths == [i \in 1..Len(chg) |-> chg[i].path]
    IN  _compact_subject(r.commit_type,
            summary_of(user_hint, r.obj, r.commit_type, r.action, r.area, paths),
            limit)

render_body(chg, raw_stat) == strip(join(<<"\n">>, body_lines(_shortstat(raw_stat), chg)))

----------------------------------------------------------------------------
(* Output *)

json_escape_char(c) ==
    IF c = "\"" THEN <<"\\", "\"">>
    ELSE IF c = "\\" THEN <<"\\", "\\">>
    ELSE IF c = "\n" THEN <<"\\", "n">>
    ELSE IF c = "\r" THEN <<"\\", "r">>
    ELSE IF c = "\t" THEN <<"\\", "t">>
    ELSE <<c>>

\* the escaped characters of s, one after the other (by halves)
RECURSIVE json_string(_)
json_string(s) ==
    IF Len(s) = 0 THEN <<>>
    ELSE IF Len(s) = 1 THEN json_escape_char(s[1])
    ELSE LET h == Len(s) \div 2
         IN  json_string(SubSeq(s, 1, h)) \o json_string(SubSeq(s, h + 1, Len(s)))

\* json.dumps({"subject": subject, "body": body}, ensure_ascii=False)
json_dumps(subj, bod) ==
    <<"{", "\"", "s", "u", "b", "j", "e", "c", "t", "\"", ":", " ", "\"">> \o json_string(subj) \o <<"\"", ",", " ", "\"", "b", "o", "d", "y", "\"", ":", " ", "\"">> \o json_string(bod) \o <<"\"", "}">>

----------------------------------------------------------------------------
(* main() *)

MsgChooseOne == "choose one of --cached or --worktree"
MsgNotARepo  == "not a git repo"
MsgNoChanges == "no changes to summarize"
MsgGitFailed == "Command returned non-zero exit status"

Exit(code, out, err) ==
    /\ pc' = "done"
    /\ exit_code' = Some(code)
    /\ stdout' = stdout \o out
    /\ stderr' = stderr \o err

\* --cached together with --worktree: refused before any repository access
ArgsInvalid ==
    /\ pc = "args"
    /\ args.cached /\ args.worktree
    /\ Exit(2, <<>>, <<MsgChooseOne>>)
    /\ UNCHANGED <<auto, finish>>
    /\ UNCHANGED <<args, is_repo, git_ok, records, diff_raw, untracked_raw, stat_raw,
                   changed, result, subject, body>>

ArgsOk ==
    /\ pc = "args"
    /\ ~(args.cached /\ args.worktree)
    /\ pc' = "repo"
    /\ UNCHANGED <<auto, finish>>
    /\ UNCHANGED <<args, is_repo, git_ok, records, diff_raw, untracked_raw, stat_raw,
                   changed, result, subject, body, stdout, stderr, exit_code>>

\* NotARepo leaving with the exit status main() uses for build_message's errors
NotARepo_exit3 ==
    /\ pc = "repo"
    /\ ~is_repo
    /\ Exit(3, <<>>, <<MsgNotARepo>>)
    /\ UNCHANGED <<auto, finish>>
    /\ UNCHANGED <<args, is_repo, git_ok, records, diff_raw, untracked_raw, stat_raw,
                   changed, result, subject, body>>

\* _get_repo_root: rev-parse fails, sys.exit(2)
NotARepo ==
    /\ pc = "repo"
    /\ ~is_repo
    /\ Exit(2, <<>>, <<MsgNotARepo>>)
    /\ UNCHANGED <<auto, finish>>
    /\ UNCHANGED <<args, is_repo, git_ok, records, diff_raw, untracked_raw, stat_raw,
                   changed, result, subject, body>>

RepoRoot ==
    /\ pc = "repo"
    /\ is_repo
    /\ pc' = "build"
    /\ UNCHANGED <<auto, finish>>
    /\ UNCHANGED <<args, is_repo, git_ok, records, diff_raw, untracked_raw, stat_raw,
                   changed, result, subject, body, stdout, stderr, exit_code>>

\* a git command of build_message fails: CalledProcessError, caught by main
BuildGitError ==
    /\ pc = "build"
    /\ ~git_ok
    /\ Exit(3, <<>>, <<MsgGitFailed>>)
    /\ UNCHANGED <<auto, finish>>
    /\ UNCHANGED <<args, is_repo, git_ok, records, diff_raw, untracked_raw, stat_raw,
                   changed, result, subject, body>>

\* build_message raises RuntimeError("no changes to summarize"), caught by main
BuildNoChanges ==
    /\ pc = "build"
    /\ git_ok
    /\ LET chg == read_changes(~args.worktree, diff_raw, untracked_raw) IN
       /\ Len(chg) = 0
       /\ changed' = chg
    /\ Exit(3, <<>>, <<MsgNoChanges>>)
    /\ UNCHANGED <<auto, finish>>
    /\ UNCHANGED <<args, is_repo, git_ok, records, diff_raw, untracked_raw, stat_raw,
                   result, subject, body>>

\* build_message returns (subject, body)
BuildMessage ==
    /\ pc = "build"
    /\ git_ok
    /\ LET chg == read_changes(~args.worktree, diff_raw, untracked_raw) IN
       /\ Len(chg) > 0
       /\ LET r == classify(chg, args.hint) IN
          /\ changed' = chg
          /\ result' = Some(r)
          /\ subject' = Some(render_subject(chg, r, args.hint))
          /\ body' = Some(render_body(chg, stat_raw))
    /\ pc' = "print"
    /\ UNCHANGED <<auto, finish>>
    /\ UNCHANGED <<args, is_repo, git_ok, records, diff_raw, untracked_raw, stat_raw,
                   stdout, stderr, exit_code>>

PrintJson ==
    /\ pc = "print"
    /\ args.json
    /\ Exit(0, <<json_dumps(the(subject), the(body))>>, <<>>)
    /\ UNCHANGED <<auto, finish>>
    /\ UNCHANGED <<args, is_repo, git_ok, records, diff_raw, untracked_raw, stat_raw,
                   changed, result, subject, body>>

PrintText ==
    /\ pc = "print"
    /\ ~args.json
    /\ Exit(0,
            << <<"s", "u", "b", "j", "e", "c", "t", ":", " ">> \o the(subject) >>
            \o (IF Len(the(body)) > 0 THEN << <<"b", "o", "d", "y", ":">>, the(body) >> ELSE <<>>),
            <<>>)
    /\ UNCHANGED <<auto, finish>>
    /\ UNCHANGED <<args, is_repo, git_ok, records, diff_raw, untracked_raw, stat_raw,
                   changed, result, subject, body>>

Next ==
    \/ ArgsInvalid
    \/ ArgsOk
    \/ NotARepo
    \/ RepoRoot
    \/ BuildGitError
    \/ BuildNoChanges
    \/ BuildMessage
    \/ PrintJson
    \/ PrintText

----------------------------------------------------------------------------
(* The environment and the command lines the runs are started with *)

\* a record of `git diff --name-status`: the status field, the old path of a
\* rename/copy (None otherwise) and the path
DiffRecord(status, old, path) == [status |-> status, old |-> old, path |-> path]

\* `git diff --name-status -z`: each field is followed by a zero byte
z_field(f) == f \o <<NUL>>

z_record(rec) ==
    z_field(rec.status)
    \o (IF is_none(rec.old) THEN <<>> ELSE z_field(the(rec.old)))
    \o z_field(rec.path)

RECURSIVE z_encode(_)
z_encode(recs) == IF Len(recs) = 0 THEN <<>> ELSE z_record(recs[1]) \o z_encode(Tail(recs))

RECURSIVE z_paths(_)
z_paths(paths) == IF Len(paths) = 0 THEN <<>> ELSE z_field(paths[1]) \o z_paths(Tail(paths))

\* all lists of at most n elements of S
RECURSIVE ListsUpTo(_, _)
ListsUpTo(S, n) ==
    IF n = 0 THEN {<<>>}
    ELSE LET shorter == ListsUpTo(S, n - 1)
         IN  shorter \cup {Append(l, x) : l \in {m \in shorter : Len(m) = n - 1}, x \in S}

StatText == <<" ", "3", " ", "f", "i", "l", "e", "s", " ", "c", "h", "a", "n", "g", "e", "d", ",", " ", "1", "0", " ", "i", "n", "s", "e", "r", "t", "i", "o", "n", "s", "(", "+", ")", ",", " ", "2", " ", "d", "e", "l", "e", "t", "i", "o", "n", "s", "(", "-", ")", "\n">>

\* command lines and repositories in which build_message is reached and its git
\* commands succeed
RunCases == {
    [cached |-> FALSE, worktree |-> FALSE, json |-> TRUE,  is_repo |-> TRUE,  git_ok |-> TRUE,
     untracked |-> << <<"n", "o", "t", "e", "s", "/", "t", "o", "d", "o", ".", "t", "x", "t">> >>, stat |-> <<>>],
    [cached |-> FALSE, worktree |-> TRUE,  json |-> FALSE, is_repo |-> TRUE,  git_ok |-> TRUE,
     untracked |-> <<>>, stat |-> StatText],
    [cached |-> FALSE, worktree |-> TRUE,  json |-> TRUE,  is_repo |-> TRUE,  git_ok |-> TRUE,
     untracked |-> << <<"m", "o", "b", "i", "l", "e", "-", "a", "p", "p", "/", "a", "b", "o", "u", "t", ".", "t", "s", "x">> >>, stat |-> <<>>] }

\* command lines and repositories in which the run fails before or inside
\* build_message: both selectors given, not a repository, a failing git command
FailCases == {
    [cached |-> TRUE,  worktree |-> TRUE,  json |-> FALSE, is_repo |-> TRUE,  git_ok |-> TRUE,
     untracked |-> <<>>, stat |-> <<>>],
    [cached |-> TRUE,  worktree |-> TRUE,  json |-> TRUE,  is_repo |-> FALSE, git_ok |-> TRUE,
     untracked |-> <<>>, stat |-> <<>>],
    [cached |-> TRUE,  worktree |-> FALSE, json |-> FALSE, is_repo |-> FALSE, git_ok |-> TRUE,
     untracked |-> << <<"n", "o", "t", "e", "s", "/", "t", "o", "d", "o", ".", "t", "x", "t">> >>, stat |-> StatText],
    [cached |-> FALSE, worktree |-> TRUE,  json |-> TRUE,  is_repo |-> FALSE, git_ok |-> FALSE,
     untracked |-> <<>>, stat |-> <<>>],
    [cached |-> FALSE, worktree |-> FALSE, json |-> FALSE, is_repo |-> TRUE,  git_ok |-> FALSE,
     untracked |-> <<>>, stat |-> <<>>] }

\* auto_commit.py at position p of main(), run with --stage, --hint, --dry-run
\* and --yes in environment e, with the staged records index and the untracked
\* files worktree
AutoStart(p, stage, hint, dry_run, yes, e, index, worktree) ==
    [pc        |-> p,
     args      |-> [stage |-> stage, hint |-> hint, dry_run |-> dry_run, yes |-> yes],
     is_repo   |-> e.is_repo,
     engine_ok |-> e.engine_ok,
     commit_ok |-> e.commit_ok,
     index     |-> index,
     worktree  |-> worktree,
     calls     |-> <<>>,
     subject   |-> None,
     body      |-> None,
     stdout    |-> <<>>,
     stderr    |-> <<>>,
     exit_code |-> None]

\* no auto_commit.py process
auto_idle ==
    AutoStart("idle", "auto", None, FALSE, FALSE,
              [is_repo |-> TRUE, engine_ok |-> TRUE, commit_ok |-> TRUE], <<>>, <<>>)

\* worktree_finish.py at position p of main(), run with the command line a;
\* can the file given with --state be read, what git status prints, the git
\* command that fails, and the repository
FinishStart(p, a, explicit_ok, porcelain, fails, repo) ==
    [pc          |-> p,
     args        |-> a,
     explicit_ok |-> explicit_ok,
     porcelain   |-> porcelain,
     fails       |-> fails,
     repo        |-> repo,
     planned     |-> <<>>,
     calls       |-> <<>>,
     stdout      |-> <<>>,
     stderr      |-> <<>>,
     exit_code   |-> None]

\* no worktree_finish.py process
finish_idle ==
    FinishStart("idle",
                [state |-> FALSE, yes |-> FALSE, merge |-> FALSE, cleanup |-> FALSE,
                 strategy |-> "merge", squash_message |-> <<>>],
                TRUE, <<>>, "none",
                [head |-> "main", merged |-> FALSE, worktree |-> FALSE, branch |-> FALSE,
                 state_file |-> FALSE])

\* the state main() starts in, for a command line and environment e, diff
\* records recs and --hint h
Start(e, recs, h) ==
    /\ pc = "args"
    /\ args = [cached |-> e.cached, worktree |-> e.worktree, json |-> e.json, hint |-> h]
    /\ is_repo = e.is_repo
    /\ git_ok = e.git_ok
    /\ records = recs
    /\ diff_raw = z_encode(recs)
    /\ untracked_raw = z_paths(e.untracked)
    /\ stat_raw = e.stat
    /\ changed = <<>>
    /\ result = None
    /\ subject = None
    /\ body = None
    /\ stdout = <<>>
    /\ stderr = <<>>
    /\ exit_code = None
    /\ auto = auto_idle
    /\ finish = finish_idle

----------------------------------------------------------------------------
(* Spec: runs over small change sets of every kind of path and status *)

MaxFiles == 2

\* the diff records the classification runs draw from
DiffRecords == {
    DiffRecord(<<"A">>, None, <<"d", "o", "c", "s", "/", "a", "b", "o", "u", "t", ".", "m", "d">>),
    DiffRecord(<<"M">>, None, <<"R", "E", "A", "D", "M", "E", ".", "M", "D">>),
    DiffRecord(<<"M">>, None, <<"d", "o", "c", "s", "/", "a", "p", "i", ".", "p", "y">>),
    DiffRecord(<<"A">>, None, <<"m", "o", "b", "i", "l", "e", "-", "a", "p", "p", "/", "a", "u", "t", "h", "/", "l", "o", "g", "i", "n", ".", "t", "s", "x">>),
    DiffRecord(<<"M">>, None, <<"b", "a", "c", "k", "e", "n", "d", "/", "s", "i", "g", "n", "u", "p", "/", "R", "e", "g", "i", "s", "t", "e", "r", ".", "t", "s">>),
    DiffRecord(<<"D">>, None, <<"b", "a", "c", "k", "e", "n", "d", "/", "S", "e", "a", "r", "c", "h", "/", "a", "p", "i", "_", "t", "e", "s", "t", ".", "g", "o">>),
    DiffRecord(<<"R", "1", "0", "0">>, Some(<<"m", "o", "b", "i", "l", "e", "-", "a", "p", "p", "/", "s", "i", "g", "n", "i", "n", ".", "t", "s", "x">>), <<"m", "o", "b", "i", "l", "e", "-", "a", "p", "p", "/", "p", "r", "i", "v", "a", "c", "y", ".", "t", "s", "x">>),
    DiffRecord(<<"C", "0", "7", "5">>, Some(<<"p", "a", "c", "k", "a", "g", "e", ".", "j", "s", "o", "n">>), <<"w", "e", "b", InvalidByte, "/">> \o <<"p", "a", "c", "k", "a", "g", "e", ".", "j", "s", "o", "n">>) }

\* no --hint, 修复登录崩溃, 完成注册功能 between spaces
Hints == { None, Some(<<"u4FEE", "u590D", "u767B", "u5F55", "u5D29", "u6E83">>), Some(<<" ", "u5B8C", "u6210", "u6CE8", "u518C", "u529F", "u80FD", " ">>) }

Init ==
    \/ \E e \in RunCases, recs \in ListsUpTo(DiffRecords, MaxFiles), h \in Hints :
           Start(e, recs, h)
    \/ \E e \in FailCases, recs \in ListsUpTo(DiffRecords, 1), h \in Hints :
           Start(e, recs, h)

Spec == Init /\ [][Next]_vars

----------------------------------------------------------------------------
(* SpecSubject: runs with hints of every length around the subject limit *)

MaxHintPad == 48

\* 长, repeated n times
Pad(n) == [i \in 1..n |-> "u957F"]

\* what follows the padding: nothing, 功能, 页面功能, 修复页功能面 and a blank,
\* x between blanks
HintTails == { <<>>, <<"u529F", "u80FD">>, <<"u9875", "u9762", "u529F", "u80FD">>, <<"u4FEE", "u590D", "u9875", "u529F", "u80FD", "u9762", " ">>, <<" ", "x", " ">> }

SubjectRecordLists == {
    <<>>,
    << DiffRecord(<<"A">>, None, <<"m", "o", "b", "i", "l", "e", "-", "a", "p", "p", "/", "a", "u", "t", "h", "/", "l", "o", "g", "i", "n", ".", "t", "s", "x">>) >>,
    << DiffRecord(<<"M">>, None, <<"d", "o", "c", "s", "/", "R", "E", "A", "D", "M", "E", ".", "m", "d">>) >>,
    << DiffRecord(<<"M">>, None, <<"p", "a", "c", "k", "a", "g", "e", ".", "j", "s", "o", "n">>), DiffRecord(<<"D">>, None, <<".", "g", "i", "t", "h", "u", "b", "/", "c", "i", ".", "y", "m", "l">>) >> }

InitSubject ==
    \/ \E e \in RunCases, recs \in SubjectRecordLists, n \in 0..MaxHintPad, t \in HintTails :
           Start(e, recs, Some(Pad(n) \o t))
    \/ \E e \in RunCases \cup FailCases, recs \in SubjectRecordLists :
           Start(e, recs, None)

SpecSubject == InitSubject /\ [][Next]_vars

----------------------------------------------------------------------------
(* SpecBody: runs over change sets of every size around the file cap *)

MaxBodyFiles == 15

\* the status fields of the i-th record, by pattern: all modified; added,
\* deleted and modified in turn; renamed and modified in turn
BodyPatterns == {"modified", "mixed", "renamed"}

body_status(pat, i) ==
    IF pat = "modified" THEN <<"M">>
    ELSE IF pat = "mixed" THEN (IF i % 3 = 1 THEN <<"A">> ELSE IF i % 3 = 2 THEN <<"D">> ELSE <<"M">>)
    ELSE (IF i % 2 = 1 THEN <<"R", "0", "8", "7">> ELSE <<"M">>)

body_record(pat, i) ==
    LET st == body_status(pat, i) IN
    DiffRecord(st,
               IF st[1] = "R" THEN Some(<<"b", "a", "c", "k", "e", "n", "d", "/", "o", "l", "d">> \o str(i) \o <<".", "g", "o">>) ELSE None,
               <<"b", "a", "c", "k", "e", "n", "d", "/", "f">> \o str(i) \o <<".", "g", "o">>)

InitBody ==
    \E e \in RunCases \cup FailCases, n \in 0..MaxBodyFiles, pat \in BodyPatterns,
       h \in {None, Some(<<"u4FEE", "u590D", "u767B", "u5F55", "u5D29", "u6E83">>)} :
        Start(e, [i \in 1..n |-> body_record(pat, i)], h)

SpecBody == InitBody /\ [][Next]_vars

----------------------------------------------------------------------------
(* auto_commit.py: the engine's JSON output, read back *)

\* the number of backslashes that stand immediately before text[k]
RECURSIVE backslashes_before(_, _)
backslashes_before(text, k) ==
    IF k = 1 \/ text[k - 1] /= "\\" THEN 0 ELSE 1 + backslashes_before(text, k - 1)

\* text[k] is the second character of an escape sequence
is_escaped(text, k) == backslashes_before(text, k) % 2 = 1

\* the first position from i on that holds no JSON whitespace
skip_ws(text, i) ==
    LET at == {j \in i..Len(text) : text[j] \notin {" ", "\n", "\r", "\t"}}
    IN  IF at = {} THEN Len(text) + 1 ELSE CHOOSE j \in at : \A m \in at : j <= m

json_unescape_char(c) ==
    IF c = "n" THEN "\n"
    ELSE IF c = "r" THEN "\r"
    ELSE IF c = "t" THEN "\t"
    ELSE c

\* the JSON string whose opening quote is text[i]: its value, and the position
\* after its closing quote
scan_string(text, i) ==
    LET ends  == {j \in (i + 1)..Len(text) : text[j] = "\"" /\ ~is_escaped(text, j)}
        close == CHOOSE j \in ends : \A m \in ends : j <= m
        chars == [k \in 1..(close - i - 1) |->
                     LET p == i + k IN
                     IF is_escaped(text, p) THEN json_unescape_char(text[p])
                     ELSE IF text[p] = "\\" THEN ""
                     ELSE text[p]]
    IN  [value |-> SelectSeq(chars, LAMBDA c : c /= ""), next |-> close + 1]

\* the members of a JSON object of strings, from the opening quote of a key on,
\* as a list of <<key, value>>
RECURSIVE json_members(_, _)
json_members(text, i) ==
    LET key   == scan_string(text, i)
        colon == skip_ws(text, key.next)
        val   == scan_string(text, skip_ws(text, colon + 1))
        after == skip_ws(text, val.next)
    IN  << <<key.value, val.value>> >>
        \o (IF after <= Len(text) /\ text[after] = ","
            THEN json_members(text, skip_ws(text, after + 1))
            ELSE <<>>)

\* json.loads of an object of strings
json_loads(text) ==
    LET open  == skip_ws(text, 1)
        first == skip_ws(text, open + 1)
    IN  IF text[first] = "}" THEN <<>> ELSE json_members(text, first)

has_key(data, key) == \E i \in 1..Len(data) : data[i][1] = key

\* data[key]: of several members with one key, json.loads keeps the last
dict_item(data, key) ==
    LET at == {i \in 1..Len(data) : data[i][1] = key}
    IN  data[CHOOSE i \in at : \A m \in at : m <= i][2]

dict_get(data, key, default) == IF has_key(data, key) THEN dict_item(data, key) ELSE default

\* what _suggest returns for the engine's standard output
suggest_result(out) ==
    LET data == json_loads(out)
        bod  == dict_get(data, <<"b", "o", "d", "y">>, <<>>)
    IN  [subject |-> dict_item(data, <<"s", "u", "b", "j", "e", "c", "t">>),
         body    |-> IF Len(bod) > 0 THEN bod ELSE <<>>]

----------------------------------------------------------------------------
(* auto_commit.py: main() *)

MsgNoStaged        == "no staged changes; pass --stage all/auto or stage manually"
MsgNothingToCommit == "nothing to commit"
MsgPassYes         == "pass --yes to execute git commit"
MsgTraceback       == "Traceback (most recent call last):"

\* the variables of the engine's process
engine_vars == <<pc, args, is_repo, git_ok, records, diff_raw, untracked_raw, stat_raw,
                 changed, result, subject, body, stdout, stderr, exit_code>>

\* one entry of auto.calls: a git command or subprocess the tool has run, the
\* arguments it was given and whether it succeeded (for has_staged: its result)
Call(op, argv, ok) == [op |-> op, argv |-> argv, ok |-> ok]

\* stdout of `git diff --cached --name-only`: a line for each staged path
name_only(index) ==
    IF Len(index) = 0 THEN <<>>
    ELSE join(<<"\n">>, [i \in 1..Len(index) |-> index[i].path]) \o <<"\n">>

_has_staged(index) == Len(strip(strip(name_only(index)))) > 0

\* `git add -A`: every untracked file of the working tree enters the index
git_add_all(index, worktree) ==
    index \o [i \in 1..Len(worktree) |-> DiffRecord(status_A, None, worktree[i])]

\* the command line _suggest builds after "python3 <script>"
suggest_cmd(hint) ==
    << <<"-", "-", "c", "a", "c", "h", "e", "d">>, <<"-", "-", "j", "s", "o", "n">> >>
    \o (IF truthy(hint) THEN << <<"-", "-", "h", "i", "n", "t">>, the(hint) >> ELSE <<>>)

\* the command line of the commit after "git -C <repo_root> commit"
commit_cmd(subj, bod) ==
    << <<"-", "m">>, subj >> \o (IF Len(bod) > 0 THEN << <<"-", "m">>, bod >> ELSE <<>>)

\* what check_output reads from the engine: the lines it printed
stdout_text == IF Len(stdout) = 0 THEN <<>> ELSE join(<<"\n">>, stdout) \o <<"\n">>

AutoExit(a, code, err) ==
    [a EXCEPT !.pc = "done", !.exit_code = Some(code), !.stderr = @ \o err]

\* _repo_root: rev-parse fails, SystemExit(2)
AutoNotARepo ==
    /\ auto.pc = "repo"
    /\ ~auto.is_repo
    /\ auto' = AutoExit(auto, 2, <<MsgNotARepo>>)
    /\ UNCHANGED <<engine_vars, finish>>

AutoRepoRoot ==
    /\ auto.pc = "repo"
    /\ auto.is_repo
    /\ auto' = [auto EXCEPT !.pc = "staged"]
    /\ UNCHANGED <<engine_vars, finish>>

\* nothing staged and --stage none
AutoStageNone ==
    /\ auto.pc = "staged"
    /\ ~_has_staged(auto.index)
    /\ auto.args.stage = "none"
    /\ auto' = AutoExit([auto EXCEPT !.calls = Append(@, Call("has_staged", <<>>, FALSE))],
                        3, <<MsgNoStaged>>)
    /\ UNCHANGED <<engine_vars, finish>>

\* nothing staged and --stage auto or all: git add -A
AutoStageAll ==
    /\ auto.pc = "staged"
    /\ ~_has_staged(auto.index)
    /\ auto.args.stage \in {"auto", "all"}
    /\ auto' = [auto EXCEPT !.pc = "recheck",
                            !.calls = @ \o << Call("has_staged", <<>>, FALSE),
                                              Call("add", << <<"-", "A">> >>, TRUE) >>,
                            !.index = git_add_all(auto.index, auto.worktree),
                            !.worktree = <<>>]
    /\ UNCHANGED <<engine_vars, finish>>

\* something is staged already: no staging, whatever --stage says
AutoStaged ==
    /\ auto.pc = "staged"
    /\ _has_staged(auto.index)
    /\ auto' = [auto EXCEPT !.pc = "recheck",
                            !.calls = Append(@, Call("has_staged", <<>>, TRUE))]
    /\ UNCHANGED <<engine_vars, finish>>

AutoNothingToCommit ==
    /\ auto.pc = "recheck"
    /\ ~_has_staged(auto.index)
    /\ auto' = AutoExit([auto EXCEPT !.calls = Append(@, Call("has_staged", <<>>, FALSE))],
                        4, <<MsgNothingToCommit>>)
    /\ UNCHANGED finish
    /\ UNCHANGED engine_vars

\* _suggest starts the engine in repo_root with --cached --json
AutoSuggestCall ==
    /\ auto.pc = "recheck"
    /\ _has_staged(auto.index)
    /\ auto' = [auto EXCEPT !.pc = "suggest",
                            !.calls = Append(@, Call("has_staged", <<>>, TRUE))]
    /\ pc' = "args"
    /\ args' = [cached |-> TRUE, worktree |-> FALSE, json |-> TRUE,
                hint |-> IF truthy(auto.args.hint) THEN auto.args.hint ELSE None]
    /\ is_repo' = TRUE
    /\ git_ok' = auto.engine_ok
    /\ records' = auto.index
    /\ diff_raw' = z_encode(auto.index)
    /\ untracked_raw' = z_paths(auto.worktree)
    /\ stat_raw' = StatText
    /\ changed' = <<>>
    /\ result' = None
    /\ subject' = None
    /\ body' = None
    /\ stdout' = <<>>
    /\ stderr' = <<>>
    /\ exit_code' = None
    /\ UNCHANGED finish

\* the engine exits with a status other than 0: check_output raises
\* CalledProcessError, which nothing catches
AutoSuggestFailed ==
    /\ auto.pc = "suggest"
    /\ pc = "done"
    /\ exit_code /= Some(0)
    /\ auto' = AutoExit([auto EXCEPT !.calls =
                             Append(@, Call("suggest", suggest_cmd(auto.args.hint), FALSE))],
                        1, <<MsgTraceback>>)
    /\ UNCHANGED <<engine_vars, finish>>

\* _suggest returns (subject, body); main prints them
AutoSuggestReturn ==
    /\ auto.pc = "suggest"
    /\ pc = "done"
    /\ exit_code = Some(0)
    /\ LET r == suggest_result(stdout_text) IN
       auto' = [auto EXCEPT !.pc = "confirm",
                            !.calls = Append(@, Call("suggest", suggest_cmd(auto.args.hint), TRUE)),
                            !.subject = Some(r.subject),
                            !.body = Some(r.body),
                            !.stdout = @ \o << <<"s", "u", "b", "j", "e", "c", "t", ":", " ">> \o r.subject >>
                                         \o (IF Len(r.body) > 0 THEN << <<"b", "o", "d", "y", ":">>, r.body >>
                                             ELSE <<>>)]
    /\ UNCHANGED <<engine_vars, finish>>

AutoDryRun ==
    /\ auto.pc = "confirm"
    /\ auto.args.dry_run
    /\ auto' = AutoExit(auto, 0, <<>>)
    /\ UNCHANGED <<engine_vars, finish>>

AutoNeedYes ==
    /\ auto.pc = "confirm"
    /\ ~auto.args.dry_run
    /\ ~auto.args.yes
    /\ auto' = AutoExit(auto, 5, <<"", MsgPassYes>>)
    /\ UNCHANGED <<engine_vars, finish>>

\* git commit is run whenever --dry-run is not given, --yes or not
AutoCommit_unconfirmed ==
    /\ auto.pc = "confirm"
    /\ ~auto.args.dry_run
    /\ auto.commit_ok
    /\ auto' = AutoExit([auto EXCEPT !.calls =
                             Append(@, Call("commit", commit_cmd(the(auto.subject), the(auto.body)), TRUE)),
                                     !.index = <<>>],
                        0, <<>>)
    /\ UNCHANGED <<engine_vars, finish>>

\* git commit -m subject [-m body] succeeds
AutoCommit ==
    /\ auto.pc = "confirm"
    /\ ~auto.args.dry_run
    /\ auto.args.yes
    /\ auto.commit_ok
    /\ auto' = AutoExit([auto EXCEPT !.calls =
                             Append(@, Call("commit", commit_cmd(the(auto.subject), the(auto.body)), TRUE)),
                                     !.index = <<>>],
                        0, <<>>)
    /\ UNCHANGED <<engine_vars, finish>>

\* git commit fails (a hook refuses, say): check_call raises CalledProcessError
AutoCommitFailed ==
    /\ auto.pc = "confirm"
    /\ ~auto.args.dry_run
    /\ auto.args.yes
    /\ ~auto.commit_ok
    /\ auto' = AutoExit([auto EXCEPT !.calls =
                             Append(@, Call("commit", commit_cmd(the(auto.subject), the(auto.body)), FALSE))],
                        1, <<MsgTraceback>>)
    /\ UNCHANGED <<engine_vars, finish>>

\* the engine's steps are those of main() that a run with --cached --json in a
\* repository with staged changes can take
NextCommit ==
    \/ AutoNotARepo
    \/ AutoRepoRoot
    \/ AutoStageNone
    \/ AutoStageAll
    \/ AutoStaged
    \/ AutoNothingToCommit
    \/ AutoSuggestCall
    \/ ArgsOk
    \/ RepoRoot
    \/ BuildGitError
    \/ BuildMessage
    \/ PrintJson
    \/ AutoSuggestFailed
    \/ AutoSuggestReturn
    \/ AutoDryRun
    \/ AutoNeedYes
    \/ AutoCommit
    \/ AutoCommitFailed

----------------------------------------------------------------------------
(* SpecCommit: runs of auto_commit.py, the engine running as its subprocess *)

MaxStaged == 1

\* the records the index may hold when the tool starts
StagedRecords == {
    DiffRecord(<<"A">>, None, <<"m", "o", "b", "i", "l", "e", "-", "a", "p", "p", "/", "a", "u", "t", "h", "/", "l", "o", "g", "i", "n", ".", "t", "s", "x">>),
    DiffRecord(<<"M">>, None, <<"d", "o", "c", "s", "/", "a", "\"", "b", "\\", "c", ".", "m", "d">>),
    DiffRecord(<<"R", "1", "0", "0">>, Some(<<"m", "o", "b", "i", "l", "e", "-", "a", "p", "p", "/", "s", "i", "g", "n", "i", "n", ".", "t", "s", "x">>), <<"m", "o", "b", "i", "l", "e", "-", "a", "p", "p", "/", "p", "r", "i", "v", "a", "c", "y", ".", "t", "s", "x">>) }

\* the untracked files the working tree may hold
Worktrees == { <<>>, << <<"n", "o", "t", "e", "s", "/", "t", "o", "d", "o", ".", "t", "x", "t">> >> }

\* --hint absent, empty, 修复登录崩溃
AutoHints == { None, Some(<<>>), Some(<<"u4FEE", "u590D", "u767B", "u5F55", "u5D29", "u6E83">>) }

\* is the directory a repository, do the engine's git commands succeed, does
\* git commit succeed
AutoEnvs == {
    [is_repo |-> TRUE,  engine_ok |-> TRUE,  commit_ok |-> TRUE],
    [is_repo |-> FALSE, engine_ok |-> TRUE,  commit_ok |-> TRUE],
    [is_repo |-> TRUE,  engine_ok |-> FALSE, commit_ok |-> TRUE],
    [is_repo |-> TRUE,  engine_ok |-> TRUE,  commit_ok |-> FALSE] }

\* the engine before _suggest starts it
EngineIdle ==
    /\ pc = "idle"
    /\ args = [cached |-> FALSE, worktree |-> FALSE, json |-> FALSE, hint |-> None]
    /\ is_repo = TRUE
    /\ git_ok = TRUE
    /\ records = <<>>
    /\ diff_raw = <<>>
    /\ untracked_raw = <<>>
    /\ stat_raw = <<>>
    /\ changed = <<>>
    /\ result = None
    /\ subject = None
    /\ body = None
    /\ stdout = <<>>
    /\ stderr = <<>>
    /\ exit_code = None

InitCommit ==
    \E stage \in {"auto", "all", "none"}, hint \in AutoHints,
       dry_run \in BOOLEAN, yes \in BOOLEAN, e \in AutoEnvs,
       index \in ListsUpTo(StagedRecords, MaxStaged), worktree \in Worktrees :
        /\ auto = AutoStart("repo", stage, hint, dry_run, yes, e, index, worktree)
        /\ EngineIdle
        /\ finish = finish_idle

SpecCommit == InitCommit /\ [][NextCommit]_vars

----------------------------------------------------------------------------
(* worktree_finish.py *)

\* the state record of the runs: state["repo_root"], ["base"], ["branch"],
\* ["worktree_path"]
state_repo_root     == "/repo"
state_base          == "main"
state_branch        == "codex/feature"
state_worktree_path == "/repo/.worktrees/feature"

MsgFinishError    == "[git-worktree-flow] ERROR:"
MsgStateNotFound  == "state not found: /repo/.git/codex-worktree-flow/state.json"
MsgNotClean       == "main worktree not clean: /repo (commit/stash first)"
MsgSquashMessage  == "--strategy squash requires --squash-message to avoid opening an editor"
MsgCommandFailed  == "command failed:"
MsgNote           == "Add --yes to execute. This tool does not prompt interactively."

PlanCheckout      == "git checkout main (in /repo)"
PlanMerge         == "git merge --no-ff --no-edit codex/feature"
PlanSquash        == "git merge --squash codex/feature"
PlanCommit        == "git commit -m \"<squash-message>\""
PlanRemove        == "git worktree remove /repo/.worktrees/feature"
PlanBranchDelete  == "git branch -d codex/feature"
PlanRemoveState   == "remove state.json"

\* the list main() builds before it looks at --yes
planned(a) ==
    (IF a.merge
     THEN IF a.strategy = "merge" THEN <<PlanCheckout, PlanMerge>>
          ELSE <<PlanCheckout, PlanSquash, PlanCommit>>
     ELSE <<>>)
    \o (IF a.cleanup THEN <<PlanRemove, PlanBranchDelete, PlanRemoveState>> ELSE <<>>)

\* the dictionary printed without --yes
plan_document(a) ==
    [repo_root |-> state_repo_root, base |-> state_base, branch |-> state_branch,
     worktree_path |-> state_worktree_path, planned |-> planned(a), note |-> MsgNote]

\* the dictionary printed at the end of a run with --yes
done_document ==
    [done |-> TRUE, repo_root |-> state_repo_root, base |-> state_base,
     branch |-> state_branch, worktree_path |-> state_worktree_path]

\* git_is_clean answering True whatever git status prints
git_is_clean_always(porcelain) == TRUE

\* git_is_clean: `git status --porcelain` prints nothing but blanks
git_is_clean(porcelain) == strip(strip(porcelain)) = <<>>

\* load_state succeeds: the file given with --state can be read, or else the
\* state file of the repository exists
state_loads(f) == IF f.args.state THEN f.explicit_ok ELSE f.repo.state_file

\* the uncaught exception of main(): reported by the handler of __main__
FinishError(f, msg) ==
    [f EXCEPT !.pc = "done", !.exit_code = Some(1), !.stderr = Append(@, <<MsgFinishError, msg>>)]

\* run(): the git command op, on which the repository refuses or accepts
Ran(f, op) == [f EXCEPT !.calls = Append(@, [op |-> op, ok |-> f.fails /= op])]

\* where main() goes on after the merge block
after_merge(f) == IF f.args.cleanup THEN "cleanup" ELSE "print"

FinishLoadFailed ==
    /\ finish.pc = "load"
    /\ ~state_loads(finish)
    /\ finish' = FinishError(finish, MsgStateNotFound)
    /\ UNCHANGED <<engine_vars, auto>>

FinishLoaded ==
    /\ finish.pc = "load"
    /\ state_loads(finish)
    /\ finish' = [finish EXCEPT !.pc = "plan", !.planned = planned(finish.args)]
    /\ UNCHANGED <<engine_vars, auto>>

\* without --yes: print the plan, return 0
FinishPrintPlan ==
    /\ finish.pc = "plan"
    /\ ~finish.args.yes
    /\ finish' = [finish EXCEPT !.pc = "done", !.exit_code = Some(0),
                                !.stdout = Append(@, plan_document(finish.args))]
    /\ UNCHANGED <<engine_vars, auto>>

\* with --yes and --merge in a main worktree that is not clean
FinishNotClean ==
    /\ finish.pc = "plan"
    /\ finish.args.yes
    /\ finish.args.merge
    /\ ~git_is_clean(finish.porcelain)
    /\ finish' = FinishError(finish, MsgNotClean)
    /\ UNCHANGED <<engine_vars, auto>>

\* with --yes and --merge in a clean main worktree: git checkout base
FinishCheckout ==
    /\ finish.pc = "plan"
    /\ finish.args.yes
    /\ finish.args.merge
    /\ git_is_clean(finish.porcelain)
    /\ finish' =
           IF finish.fails = "checkout"
           THEN FinishError(Ran(finish, "checkout"), MsgCommandFailed)
           ELSE [Ran(finish, "checkout") EXCEPT !.pc = "strategy", !.repo.head = state_base]
    /\ UNCHANGED <<engine_vars, auto>>

\* with --yes and without --merge
FinishNoMerge ==
    /\ finish.pc = "plan"
    /\ finish.args.yes
    /\ ~finish.args.merge
    /\ finish' = [finish EXCEPT !.pc = after_merge(finish)]
    /\ UNCHANGED <<engine_vars, auto>>

\* git merge --no-ff --no-edit branch
FinishMerge ==
    /\ finish.pc = "strategy"
    /\ finish.args.strategy = "merge"
    /\ finish' =
           IF finish.fails = "merge"
           THEN FinishError(Ran(finish, "merge"), MsgCommandFailed)
           ELSE [Ran(finish, "merge") EXCEPT !.pc = after_merge(finish), !.repo.merged = TRUE]
    /\ UNCHANGED <<engine_vars, auto>>

\* --strategy squash with a blank --squash-message
FinishSquashNoMessage ==
    /\ finish.pc = "strategy"
    /\ finish.args.strategy = "squash"
    /\ Len(strip(finish.args.squash_message)) = 0
    /\ finish' = FinishError(finish, MsgSquashMessage)
    /\ UNCHANGED <<engine_vars, auto>>

\* git merge --squash branch, then git commit -m msg; a branch merged by
\* squash is not merged for `git branch -d`
FinishSquash ==
    /\ finish.pc = "strategy"
    /\ finish.args.strategy = "squash"
    /\ Len(strip(finish.args.squash_message)) > 0
    /\ finish' =
           IF finish.fails = "merge"
           THEN FinishError(Ran(finish, "merge"), MsgCommandFailed)
           ELSE IF finish.fails = "commit"
           THEN FinishError(Ran(Ran(finish, "merge"), "commit"), MsgCommandFailed)
           ELSE [Ran(Ran(finish, "merge"), "commit") EXCEPT !.pc = after_merge(finish)]
    /\ UNCHANGED <<engine_vars, auto>>

\* git worktree remove, git branch -d (refused for a branch that is not
\* merged), unlink of the state file if it exists
FinishCleanup ==
    /\ finish.pc = "cleanup"
    /\ finish' =
           IF finish.fails = "remove"
           THEN FinishError(Ran(finish, "remove"), MsgCommandFailed)
           ELSE LET removed == [Ran(finish, "remove") EXCEPT !.repo.worktree = FALSE] IN
                IF ~finish.repo.merged
                THEN FinishError([removed EXCEPT !.calls = Append(@, [op |-> "branch", ok |-> FALSE])],
                                 MsgCommandFailed)
                ELSE LET deleted == [removed EXCEPT
                                        !.calls = Append(@, [op |-> "branch", ok |-> TRUE]),
                                        !.repo.branch = FALSE] IN
                     IF finish.repo.state_file
                     THEN [deleted EXCEPT !.pc = "print",
                                          !.calls = Append(@, [op |-> "unlink", ok |-> TRUE]),
                                          !.repo.state_file = FALSE]
                     ELSE [deleted EXCEPT !.pc = "print"]
    /\ UNCHANGED <<engine_vars, auto>>

FinishPrintDone ==
    /\ finish.pc = "print"
    /\ finish' = [finish EXCEPT !.pc = "done", !.exit_code = Some(0),
                                !.stdout = Append(@, done_document)]
    /\ UNCHANGED <<engine_vars, auto>>

NextFinish ==
    \/ FinishLoadFailed
    \/ FinishLoaded
    \/ FinishPrintPlan
    \/ FinishNotClean
    \/ FinishCheckout
    \/ FinishNoMerge
    \/ FinishMerge
    \/ FinishSquashNoMessage
    \/ FinishSquash
    \/ FinishCleanup
    \/ FinishPrintDone

----------------------------------------------------------------------------
(* SpecFinish: runs of worktree_finish.py *)

\* what `git status --porcelain` prints in the main worktree
Porcelains == { <<>>, <<" ", "M", " ", "R", "E", "A", "D", "M", "E", ".", "m", "d", "\n">>, <<"?", "?", " ", "n", "o", "t", "e", "s", ".", "t", "x", "t", "\n">> }

\* --squash-message absent, blank, 合并功能
SquashMessages == { <<>>, <<" ", " ">>, <<"u5408", "u5E76", "u529F", "u80FD">> }

\* the git command the repository refuses, if any
Failures == {"none", "checkout", "merge", "commit", "remove"}

InitFinish ==
    \E explicit \in BOOLEAN, yes \in BOOLEAN, merge \in BOOLEAN, cleanup \in BOOLEAN,
       strategy \in {"merge", "squash"}, msg \in SquashMessages,
       explicit_ok \in BOOLEAN, state_file \in BOOLEAN, merged \in BOOLEAN,
       porcelain \in Porcelains, fails \in Failures :
        /\ finish = FinishStart("load",
                        [state |-> explicit, yes |-> yes, merge |-> merge, cleanup |-> cleanup,
                         strategy |-> strategy, squash_message |-> msg],
                        explicit_ok, porcelain, fails,
                        [head |-> state_branch, merged |-> merged, worktree |-> TRUE,
                         branch |-> TRUE, state_file |-> state_file])
        /\ EngineIdle
        /\ auto = auto_idle

SpecFinish == InitFinish /\ [][NextFinish]_vars

----------------------------------------------------------------------------
(* Properties *)

\* the paths of the ChangeSet of the run
run_paths == [i \in 1..Len(changed) |-> changed[i].path]

\* build_message has returned in this run
Built == ~is_none(result) /\ ~is_none(subject) /\ ~is_none(body)

\* the summary build_message hands to _compact_subject in this run
run_summary ==
    LET r == the(result)
    IN  summary_of(args.hint, r.obj, r.commit_type, r.action, r.area, run_paths)

\* "<type>: <summary>", and the same with the words 功能 and 页面 taken out of
\* the summary
run_full_subject == strip(the(result).commit_type \o <<":", " ">> \o run_summary)
run_short_subject ==
    strip(the(result).commit_type \o <<":", " ">>
          \o replace(replace(run_summary, <<"u529F", "u80FD">>, <<>>), <<"u9875", "u9762">>, <<>>))

\* the --hint of the run names a defect
HintNamesDefect ==
    /\ ~is_none(args.hint)
    /\ \E w \in { <<"u4FEE", "u590D">>, <<"b", "u", "g">>, <<"u5D29", "u6E83">>, <<"u5F02", "u5E38">>, <<"u9519", "u8BEF">> } : contains(the(args.hint), w)

\* C1: whenever build_message returns, the subject has at most 50 code points:
\* it is "<type>: <summary>" if that fits, else the same without the two suffix
\* words if that fits, else the first 50 code points of "<type>: <summary>";
\* and the run ends with exit status 0, not with an error.
C1_SubjectAtMost50 ==
    Built =>
        LET s == the(subject) IN
        /\ Len(s) <= 50
        /\ Len(run_full_subject) <= 50 => s = run_full_subject
        /\ Len(run_full_subject) > 50 /\ Len(run_short_subject) <= 50 => s = run_short_subject
        /\ Len(run_full_subject) > 50 /\ Len(run_short_subject) > 50 =>
               Len(s) = 50 /\ s = SubSeq(run_full_subject, 1, 50)
        /\ pc = "done" => exit_code = Some(0)

\* a run has ended whose hint made both candidate subjects longer than 50
C1_Witness ==
    /\ Built
    /\ pc = "done"
    /\ exit_code = Some(0)
    /\ ~is_none(args.hint)
    /\ Len(run_full_subject) > 50
    /\ Len(run_short_subject) > 50
    /\ Len(the(subject)) = 50

\* C2: the commit type is decided by the first rule that matches, in the order
\* fix (the hint names a defect), docs (every path is a documentation path),
\* test (every path is a test path), chore (every path is configuration), feat.
C2_TypeRuleOrder ==
    Built =>
        LET t == the(result).commit_type
            docs  == \A i \in 1..Len(run_paths) :
                         \/ startswith(run_paths[i], <<"d", "o", "c", "s", "/">>)
                         \/ endswith(lower(run_paths[i]), <<".", "m", "d">>)
            tests == \A i \in 1..Len(run_paths) : is_test_path(run_paths[i])
            chore == \A i \in 1..Len(run_paths) : is_chore_path(run_paths[i])
        IN  /\ HintNamesDefect => t = <<"f", "i", "x">>
            /\ ~HintNamesDefect /\ docs => t = <<"d", "o", "c", "s">>
            /\ ~HintNamesDefect /\ ~docs /\ tests => t = <<"t", "e", "s", "t">>
            /\ ~HintNamesDefect /\ ~docs /\ ~tests /\ chore => t = <<"c", "h", "o", "r", "e">>
            /\ ~HintNamesDefect /\ ~docs /\ ~tests /\ ~chore => t = <<"f", "e", "a", "t">>

\* Scenario E: a hint that names a defect, only documentation files, type fix
C2_Witness ==
    /\ Built
    /\ HintNamesDefect
    /\ Len(run_paths) = 2
    /\ \A i \in 1..Len(run_paths) : endswith(lower(run_paths[i]), <<".", "m", "d">>)
    /\ the(result).commit_type = <<"f", "i", "x">>

\* C3 as stated: if every path ends in a documentation extension the type is
\* docs, and if some path does not end in one the type is not docs.
C3_Original ==
    Built =>
        LET t == the(result).commit_type IN
        /\ (\A i \in 1..Len(run_paths) : endswith(lower(run_paths[i]), <<".", "m", "d">>)) => t = <<"d", "o", "c", "s">>
        /\ (\E i \in 1..Len(run_paths) : ~endswith(lower(run_paths[i]), <<".", "m", "d">>)) => t /= <<"d", "o", "c", "s">>

\* C3, amended: if every path ends in .md (in any letter case) and the hint names
\* no defect, the type is docs; if some path neither ends in .md nor lies under
\* docs/, the type is not docs.
C3_DocsOnly ==
    Built =>
        LET t == the(result).commit_type IN
        /\ (/\ \A i \in 1..Len(run_paths) : endswith(lower(run_paths[i]), <<".", "m", "d">>)
            /\ ~HintNamesDefect) => t = <<"d", "o", "c", "s">>
        /\ (\E i \in 1..Len(run_paths) :
               /\ ~endswith(lower(run_paths[i]), <<".", "m", "d">>)
               /\ ~startswith(run_paths[i], <<"d", "o", "c", "s", "/">>)) => t /= <<"d", "o", "c", "s">>

\* only documentation files, one with an upper-case extension and outside docs/
C3_Witness ==
    /\ Built
    /\ ~HintNamesDefect
    /\ \A i \in 1..Len(run_paths) : endswith(lower(run_paths[i]), <<".", "m", "d">>)
    /\ \E i \in 1..Len(run_paths) :
           endswith(run_paths[i], <<".", "M", "D">>) /\ ~startswith(run_paths[i], <<"d", "o", "c", "s", "/">>)
    /\ the(result).commit_type = <<"d", "o", "c", "s">>

\* the run of Scenario B: one Added file mobile-app/auth/login.tsx, no hint
ScenarioB ==
    /\ Built
    /\ changed = << ChangedFile(<<"A">>, <<"m", "o", "b", "i", "l", "e", "-", "a", "p", "p", "/", "a", "u", "t", "h", "/", "l", "o", "g", "i", "n", ".", "t", "s", "x">>) >>
    /\ is_none(args.hint)

\* C4 as stated: in Scenario B the type is feat, the object is 认证
\* (authentication), the subject ends in 功能 and the area is 移动端.
C4_Original ==
    ScenarioB =>
        /\ the(result).commit_type = <<"f", "e", "a", "t">>
        /\ the(result).obj = Some(<<"u8BA4", "u8BC1">>)
        /\ endswith(the(subject), <<"u529F", "u80FD">>)
        /\ the(result).area = <<"u79FB", "u52A8", "u7AEF">>

\* C4, amended: in Scenario B the type is feat, the object is 登录 (login, which
\* ties with 认证 at score 3 and comes first in the keyword table), the subject
\* ends in 功能 and the area is 移动端.
C4_ScenarioB ==
    ScenarioB =>
        /\ the(result).commit_type = <<"f", "e", "a", "t">>
        /\ the(result).obj = Some(<<"u767B", "u5F55">>)
        /\ the(subject) = <<"f", "e", "a", "t", ":", " ", "u65B0", "u589E", "u767B", "u5F55", "u529F", "u80FD">>
        /\ endswith(the(subject), <<"u529F", "u80FD">>)
        /\ the(result).area = <<"u79FB", "u52A8", "u7AEF">>

C4_Witness == ScenarioB /\ pc = "done" /\ exit_code = Some(0)

\* the repository reports no tracked change and, with --worktree, no untracked file
NothingChanged ==
    /\ Len(records) = 0
    /\ args.worktree => Len(untracked_raw) = 0

\* C5: a run that reaches build_message in a repository with nothing changed
\* ends with exit status 3 and the NoChanges message on standard error; no
\* classifier or renderer has run and nothing is on standard output.
C5_NoChanges ==
    /\ NothingChanged => ~Built /\ pc /= "print"
    /\ (/\ pc = "done"
        /\ ~(args.cached /\ args.worktree)
        /\ is_repo
        /\ git_ok
        /\ NothingChanged)
       => /\ exit_code = Some(3)
          /\ stderr = <<MsgNoChanges>>
          /\ stdout = <<>>
          /\ is_none(result) /\ is_none(subject) /\ is_none(body)

\* a staged-mode run ended with NoChanges although an untracked file exists
C5_Witness ==
    /\ pc = "done"
    /\ exit_code = Some(3)
    /\ stderr = <<MsgNoChanges>>
    /\ NothingChanged
    /\ ~args.worktree
    /\ Len(untracked_raw) > 0

\* the lines of the body of the run
run_body_lines == IF Len(the(body)) = 0 THEN <<>> ELSE split(the(body), "\n")

\* the statistics line git printed, without the surrounding blanks
run_stat == strip(decode(stat_raw))

\* C6: the body is, in this order: the statistics line if git printed one; one
\* line "- <status> <path>" for each of the first min(n, 12) files of the
\* ChangeSet, in its order; and, exactly when n > 12, one line that reports the
\* n - 12 files not listed.
C6_BodyLines ==
    Built =>
        LET n     == Len(changed)
            off   == IF Len(run_stat) > 0 THEN 1 ELSE 0
            shown == IF n < 12 THEN n ELSE 12
            lines == run_body_lines
        IN  /\ n >= 1
            /\ Len(lines) = off + shown + (IF n > 12 THEN 1 ELSE 0)
            /\ off = 1 => lines[1] = <<"-", " ", "u7EDF", "u8BA1", "uFF1A">> \o run_stat
            /\ \A i \in 1..shown :
                   lines[off + i] = <<"-", " ">> \o changed[i].status \o <<" ">> \o changed[i].path
            /\ n > 12 => lines[off + 13] = <<"-", " ", ".", ".", ".", " ", "u4EE5", "u53CA", "u53E6", "u5916", " ">> \o str(n - 12) \o <<" ", "u4E2A", "u6587", "u4EF6">>

\* Scenario C: 15 modified files under backend/, no hint: 12 file lines and the
\* line that reports 3 more files
C6_Witness ==
    /\ Built
    /\ is_none(args.hint)
    /\ Len(changed) = 15
    /\ \A i \in 1..15 : changed[i].status = <<"M">> /\ startswith(changed[i].path, <<"b", "a", "c", "k", "e", "n", "d", "/">>)
    /\ Len(run_stat) = 0
    /\ Len(run_body_lines) = 13
    /\ run_body_lines[12] = <<"-", " ", "M", " ", "b", "a", "c", "k", "e", "n", "d", "/", "f", "1", "2", ".", "g", "o">>
    /\ run_body_lines[13] = <<"-", " ", ".", ".", ".", " ", "u4EE5", "u53CA", "u53E6", "u5916", " ", "3", " ", "u4E2A", "u6587", "u4EF6">>

\* C7 as stated: outside a repository the run ends with exit status 3, which is
\* not the status 2 of an invalid argument combination, and reads no changes.
C7_Original ==
    (pc = "done" /\ ~is_repo /\ ~(args.cached /\ args.worktree)) =>
        /\ exit_code = Some(3)
        /\ exit_code /= Some(2)
        /\ ~Built /\ Len(changed) = 0

\* C7, amended: outside a repository the run never reaches build_message: it
\* ends with exit status 2 (the status of an invalid argument combination too)
\* and "not a git repo" on standard error, having read and classified nothing
\* and printed nothing on standard output.
C7_NotARepository ==
    /\ ~is_repo => /\ pc \notin {"build", "print"}
                   /\ ~Built /\ Len(changed) = 0 /\ stdout = <<>>
    /\ (pc = "done" /\ ~is_repo /\ ~(args.cached /\ args.worktree)) =>
           exit_code = Some(2) /\ stderr = <<MsgNotARepo>>
    /\ (pc = "done" /\ args.cached /\ args.worktree) =>
           exit_code = Some(2) /\ stderr = <<MsgChooseOne>>

\* a run outside a repository has ended, with changes it did not read
C7_Witness ==
    /\ pc = "done"
    /\ ~is_repo
    /\ ~(args.cached /\ args.worktree)
    /\ Len(records) > 0
    /\ Len(changed) = 0
    /\ exit_code = Some(2)

IsRenameOrCopy(rec) == rec.status[1] \in {"R", "C"}

\* the ChangeSet of the run with the status of its i-th file replaced by st
with_status(i, st) == [changed EXCEPT ![i].status = st]

statuses_of(chg) == [i \in 1..Len(chg) |-> chg[i].status]

\* C8 as stated: the file read from a rename/copy record carries the new path,
\* and giving it the status Added changes neither the object nor the action.
C8_Original ==
    Built =>
        \A i \in 1..Len(records) :
            IsRenameOrCopy(records[i]) =>
                /\ changed[i].path = decode(records[i].path)
                /\ _infer_object(with_status(i, <<"A">>)) = the(result).obj
                /\ _infer_action(statuses_of(with_status(i, <<"A">>))) = the(result).action

\* C8, amended: the file read from a rename/copy record carries the new path and
\* the status letter R or C, which the classifiers treat like Modified, not like
\* Added: giving it the status Modified changes neither the object nor the action.
C8_RenamedLikeModified ==
    Built =>
        \A i \in 1..Len(records) :
            IsRenameOrCopy(records[i]) =>
                /\ changed[i].path = decode(records[i].path)
                /\ changed[i].status = <<records[i].status[1]>>
                /\ _infer_object(with_status(i, <<"M">>)) = the(result).obj
                /\ _infer_action(statuses_of(with_status(i, <<"M">>))) = the(result).action

\* a run with a renamed file for which the status Added would have changed both
\* the object and the action
C8_Witness ==
    /\ Built
    /\ \E i \in 1..Len(records) :
           /\ IsRenameOrCopy(records[i])
           /\ changed[i].status = <<"R">>
           /\ _infer_object(with_status(i, <<"A">>)) /= the(result).obj
           /\ _infer_action(statuses_of(with_status(i, <<"A">>))) /= the(result).action

\* the number of paths `git ls-files -z` printed
untracked_count == Cardinality({i \in 1..Len(untracked_raw) : untracked_raw[i] = NUL})

\* build_message has read the ChangeSet in this run
ChangesRead == Built \/ (pc = "done" /\ stderr = <<MsgNoChanges>>)

\* C9: the reader returns one ChangedFile per record of the diff, in the order
\* of the records, with the first letter of the record's status and the
\* record's path (the new path of a rename/copy); the untracked files follow
\* with --worktree; no ChangedFile has an empty path.
C9_OneFilePerRecord ==
    ChangesRead =>
        /\ Len(changed) = Len(records) + (IF args.worktree THEN untracked_count ELSE 0)
        /\ \A i \in 1..Len(records) :
               /\ changed[i].status = <<records[i].status[1]>>
               /\ changed[i].path = decode(records[i].path)
        /\ \A i \in 1..Len(changed) : Len(changed[i].path) > 0

\* a rename/copy record followed by an ordinary record, both read as they are
C9_Witness ==
    /\ Built
    /\ Len(records) = 2
    /\ IsRenameOrCopy(records[1])
    /\ ~IsRenameOrCopy(records[2])
    /\ changed[1].path = decode(records[1].path)
    /\ changed[2] = ChangedFile(records[2].status, records[2].path)

\* an Added file of the run names an about page or a privacy page
PriorityPhaseDecides ==
    \E i \in 1..Len(changed) :
        /\ changed[i].status = <<"A">>
        /\ \/ contains(lower(changed[i].path), <<"a", "b", "o", "u", "t">>)
           \/ contains(lower(changed[i].path), <<"p", "r", "i", "v", "a", "c", "y">>)

\* the pairs <<k, i>> with keyword k a substring of the lower-cased i-th path
KeywordHits ==
    {h \in (1..Len(keywords)) \X (1..Len(changed)) :
        contains(lower(changed[h[2]].path), keywords[h[1]][1])}

\* the score of label l: 3 for each hit of one of its keywords in an Added
\* file, 1 for each hit in another file
ScoreOf(l, hits) ==
    3 * Cardinality({h \in hits : keywords[h[1]][2] = l /\ changed[h[2]].status = <<"A">>})
    + Cardinality({h \in hits : keywords[h[1]][2] = l /\ changed[h[2]].status /= <<"A">>})

\* the place of label l in the keyword table
TableIndex(l) ==
    CHOOSE k \in 1..Len(keywords) :
        keywords[k][2] = l /\ \A j \in 1..(k - 1) : keywords[j][2] /= l

Labels == {keywords[k][2] : k \in 1..Len(keywords)}

\* C10: when the priority phase does not decide, the object is None exactly
\* when no keyword occurs in any lower-cased path, and else it is the label of
\* the largest score, the first of them in the keyword table if several have it.
C10_MaxScoreFirstInTable ==
    (Built /\ ~PriorityPhaseDecides) =>
        LET hits == KeywordHits
            obj  == the(result).obj
        IN  /\ is_none(obj) <=> hits = {}
            /\ ~is_none(obj) =>
                   /\ the(obj) \in Labels
                   /\ \A l \in Labels :
                          /\ ScoreOf(l, hits) <= ScoreOf(the(obj), hits)
                          /\ (l /= the(obj) /\ ScoreOf(l, hits) = ScoreOf(the(obj), hits))
                                 => TableIndex(the(obj)) < TableIndex(l)

\* a run in which two labels tie for the largest score and both an Added and a
\* Modified file score
C10_Witness ==
    /\ Built
    /\ ~PriorityPhaseDecides
    /\ ~is_none(the(result).obj)
    /\ LET hits == KeywordHits IN
       /\ \E l \in Labels :
              l /= the(the(result).obj)
              /\ ScoreOf(l, hits) = ScoreOf(the(the(result).obj), hits)
       /\ \E h \in hits : changed[h[2]].status = <<"A">>
       /\ \E h \in hits : changed[h[2]].status = <<"M">>

count_status(st) == Cardinality({i \in 1..Len(changed) : changed[i].status = st})

\* C11: the action of a built message is "added" (新增) when at least one file
\* of the ChangeSet is Added, however many Deleted or Modified files there are
\* beside it; "removed" (移除) when none is Added and at least one is Deleted;
\* and "updated" (更新) in every other case.
C11_ActionPrecedence ==
    Built =>
        LET action == the(result).action IN
        /\ count_status(status_A) >= 1 => action = action_added
        /\ (count_status(status_A) = 0 /\ count_status(status_D) >= 1)
               => action = action_removed
        /\ (count_status(status_A) = 0 /\ count_status(status_D) = 0)
               => action = action_updated

\* a built message for a ChangeSet holding an Added and a Deleted file at once
C11_Witness ==
    /\ Built
    /\ count_status(status_A) >= 1
    /\ count_status(status_D) >= 1
    /\ the(result).action = action_added

\* the entries of auto.calls that run the command op
calls_of(op) == {i \in 1..Len(auto.calls) : auto.calls[i].op = op}

\* C12: in a run of auto_commit.py, git commit is run at most once, and only
\* after, in this order, a check found staged changes (with no staging after
\* it), the engine run with --cached --json returned a subject and a body with
\* exit status 0, and --yes was given without --dry-run; the commit gets the
\* engine's subject as one -m segment and the engine's body as a second -m
\* segment only if the body is not empty.  With --stage none and nothing
\* staged, neither git add nor git commit is run.
C12_CommitOnceConfirmed ==
    /\ Cardinality(calls_of("commit")) <= 1
    /\ \A i \in calls_of("commit") :
           /\ \E j \in 1..(i - 1), k \in 1..(i - 1) :
                  /\ j < k
                  /\ auto.calls[j] = Call("has_staged", <<>>, TRUE)
                  /\ \A m \in calls_of("add") : m < j
                  /\ auto.calls[k].op = "suggest"
                  /\ auto.calls[k].ok
                  /\ SubSeq(auto.calls[k].argv, 1, 2) = << <<"-", "-", "c", "a", "c", "h", "e", "d">>, <<"-", "-", "j", "s", "o", "n">> >>
           /\ Built
           /\ exit_code = Some(0)
           /\ auto.args.yes
           /\ ~auto.args.dry_run
           /\ auto.calls[i].argv =
                  << <<"-", "m">>, the(subject) >>
                  \o (IF Len(the(body)) > 0 THEN << <<"-", "m">>, the(body) >> ELSE <<>>)
    /\ (auto.args.stage = "none" /\ Len(auto.calls) >= 1 /\ ~auto.calls[1].ok)
           => (calls_of("add") = {} /\ calls_of("commit") = {})

\* a run with --yes that found nothing staged, staged the working tree's file,
\* and committed with the engine's subject and body as two segments
C12_Witness ==
    /\ auto.pc = "done"
    /\ auto.exit_code = Some(0)
    /\ calls_of("add") /= {}
    /\ \E i \in calls_of("commit") :
           /\ auto.calls[i].ok
           /\ auto.calls[i].argv = << <<"-", "m">>, the(subject), <<"-", "m">>, the(body) >>
           /\ Len(the(body)) > 0

\* the git commands and file deletions worktree_finish.py has run
finish_ops == {finish.calls[i].op : i \in 1..Len(finish.calls)}

\* `git status --porcelain` has reported an entry
worktree_dirty == \E i \in 1..Len(finish.porcelain) : finish.porcelain[i] \notin Whitespace

\* nothing of the repository has been touched since the run began
finish_untouched ==
    /\ finish.calls = <<>>
    /\ finish.repo.head = state_branch
    /\ finish.repo.worktree
    /\ finish.repo.branch

====
